---- MODULE Spec2Model ----
(***************************************************************************)
(* server.py: a static-file HTTP server for the tile game.                 *)
(*                                                                         *)
(* One process with two threads: the main thread runs the module code      *)
(* (argument parsing, start_server, then interpreter finalization) and a   *)
(* threading.Timer thread runs the one-shot browser-open action.  The      *)
(* environment supplies the command line, the ports that cannot be bound,  *)
(* client connections, keyboard interrupts and the outcome of opening a    *)
(* browser.                                                                *)
(***************************************************************************)
EXTENDS Integers, Sequences, FiniteSets, TLC

VARIABLES
    argv,        \* sys.argv: a sequence of tokens, each a sequence of characters
    unavailable, \* ports whose bind() the OS refuses with an OSError
    pc,          \* statement the main thread executes next
    port,        \* the port variable (line 32): {} until assigned, then {p}
    url,         \* the url local (line 18): {} until assigned, then {u}
    server,      \* the HTTPServer instance, once created, with its address
    binds,       \* every address handed to HTTPServer(...), with the outcome
    out,         \* lines printed on stdout
    scheduled,   \* number of Timer(...).start() calls made
    pending,     \* timers started and not yet fired
    opened,      \* webbrowser.open calls made by the timer thread
    backlog,     \* connections waiting in the listen queue
    conns,       \* connections accepted and not yet closed
    served,      \* connections that went through request, response, close
    entered,     \* serve_forever() has been called
    interrupts,  \* keyboard interrupts delivered so far
    intrServe,   \* keyboard interrupts delivered while in serve_forever()
    exc          \* exception that escaped the module code ("None" if none)

vars == <<argv, unavailable, pc, port, url, server, binds, out, scheduled,
          pending, opened, backlog, conns, served, entered, interrupts,
          intrServe, exc>>

----------------------------------------------------------------------------
(* Bounds of the model *)

MaxBacklog == 2
MaxServed == 2
MaxInterrupts == 2

----------------------------------------------------------------------------
(* Values *)

None == "None"

(* A name that has no value yet holds Unset, afterwards the set of its value *)
Unset == {}

Val(name) == CHOOSE v \in name : TRUE

DefaultPort == 8000

MaxPort == 65535

EphemeralPort == 49152

Digits == <<"0", "1", "2", "3", "4", "5", "6", "7", "8", "9">>

DigitSet == {Digits[i] : i \in 1..10}

DigitVal(c) == (CHOOSE i \in 1..10 : Digits[i] = c) - 1

RECURSIVE DecVal(_)
DecVal(s) ==
    IF s = <<>> THEN 0
    ELSE DecVal(SubSeq(s, 1, Len(s) - 1)) * 10 + DigitVal(s[Len(s)])

(* int(s) for a token without whitespace or underscores: an optional sign *)
(* and at least one decimal digit, ValueError otherwise.                  *)
PyInt(tok) ==
    LET signed == tok # <<>> /\ tok[1] \in {"-", "+"}
        body   == IF signed THEN Tail(tok) ELSE tok
        sign   == IF signed /\ tok[1] = "-" THEN 0 - 1 ELSE 1
    IN  IF body = <<>> \/ \E i \in 1..Len(body) : body[i] \notin DigitSet
        THEN [ok |-> FALSE, val |-> 0]
        ELSE [ok |-> TRUE, val |-> sign * DecVal(body)]

RECURSIVE StrNat(_)
StrNat(n) ==
    IF n < 10 THEN <<Digits[n + 1]>>
    ELSE StrNat(n \div 10) \o <<Digits[(n % 10) + 1]>>

(* f"{n}" for an int *)
Str(n) == IF n < 0 THEN <<"-">> \o StrNat(0 - n) ELSE StrNat(n)

(* f"http://localhost:{port}/index.html" *)
Url(p) == [host |-> "localhost", port |-> Str(p), path |-> "/index.html"]

MsgRunning(u) == [kind |-> "Server running at", args |-> <<u.port>>]

MsgHint == [kind |-> "Press Ctrl+C to stop", args |-> <<>>]

(* Variant: the suggestion repeats the port *)
MsgPortInUseSamePort(p) == [kind |-> "Port in use", args |-> <<Str(p), Str(p)>>]

MsgPortInUse(p) == [kind |-> "Port in use", args |-> <<Str(p), Str(p + 1)>>]

MsgStopped == [kind |-> "Server stopped", args |-> <<>>]

----------------------------------------------------------------------------
(* Command lines *)

Script == <<"s", "e", "r", "v", "e", "r", ".", "p", "y">>

ArgTokens ==
    { <<"8", "0", "0", "0">>,
      <<"8", "0", "0", "1">>,
      <<"0">>,
      <<"8", "0">>,
      <<"6", "5", "5", "3", "5">>,
      <<"6", "5", "5", "3", "6">>,
      <<"-", "1">>,
      <<"+", "8", "0", "0", "0">>,
      <<"0", "8", "0", "0">>,
      <<"a", "b", "c">>,
      <<>> }

ArgvSet ==
    {<<Script>>} \cup {<<Script, t>> : t \in ArgTokens}
        \cup {<<Script, <<"8", "0", "0", "1">>, <<"9">>>>}

UnavailableSets == {{}, {8000}, {80, 8000, 8001}}

----------------------------------------------------------------------------
(* Content types *)

Paths ==
    { <<"/", "i", "n", "d", "e", "x", ".", "h", "t", "m", "l">>,
      <<"/", "a", "p", "p", ".", "j", "s">>,
      <<"/", "A", "P", "P", ".", "J", "S">>,
      <<"/", ".", "j", "s">>,
      <<"/", "j", "s">>,
      <<"/", "a", ".", "j", "s", "o", "n">>,
      <<"/", "a", ".", "j", "s", ".", "m", "a", "p">>,
      <<"/", "v", "1", ".", "2", "/", "a", "p", "p">> }

Contents == {"script", "markup", "missing"}

(* str.endswith *)
EndsWith(s, suffix) ==
    /\ Len(s) >= Len(suffix)
    /\ SubSeq(s, Len(s) - Len(suffix) + 1, Len(s)) = suffix

LastIndex(s, c) ==
    LET hits == {i \in 1..Len(s) : s[i] = c}
    IN  IF hits = {} THEN 0 ELSE CHOOSE i \in hits : \A j \in hits : j <= i

(* posixpath.splitext(path)[1]: the text from the last dot of the last    *)
(* component on, unless only dots precede it in that component.           *)
SplitExt(path) ==
    LET sep == LastIndex(path, "/")
        dot == LastIndex(path, ".")
    IN  IF dot > sep /\ \E i \in (sep + 1)..(dot - 1) : path[i] # "."
        THEN SubSeq(path, dot, Len(path))
        ELSE <<>>

Lower(c) ==
    CASE c = "J" -> "j"
      [] c = "S" -> "s"
      [] c = "A" -> "a"
      [] c = "P" -> "p"
      [] OTHER -> c

LowerSeq(s) == [i \in 1..Len(s) |-> Lower(s[i])]

(* SimpleHTTPRequestHandler.guess_type: extension lookup, case-folded,    *)
(* application/octet-stream for an unknown extension.                     *)
DefaultGuessType(self, path) ==
    LET ext == LowerSeq(SplitExt(path))
    IN  CASE ext = <<".", "h", "t", "m", "l">> -> "text/html"
          [] ext = <<".", "j", "s">> -> "text/javascript"
          [] ext = <<".", "j", "s", "o", "n">> -> "application/json"
          [] OTHER -> "application/octet-stream"

(* Variant: the suffix test ignores case *)
guess_type_AnyCase(self, path) ==
    IF EndsWith(LowerSeq(path), <<".", "j", "s">>)
    THEN "application/javascript"
    ELSE DefaultGuessType(self, path)

(* JSHandler.guess_type *)
guess_type(self, path) ==
    IF EndsWith(path, <<".", "j", "s">>)
    THEN "application/javascript"
    ELSE DefaultGuessType(self, path)

----------------------------------------------------------------------------
(* Initial state: the interpreter is about to run line 32 *)

Init ==
    /\ argv \in ArgvSet
    /\ unavailable \in UnavailableSets
    /\ pc = "main"
    /\ port = Unset
    /\ url = Unset
    /\ server = {}
    /\ binds = <<>>
    /\ out = <<>>
    /\ scheduled = 0
    /\ pending = 0
    /\ opened = <<>>
    /\ backlog = 0
    /\ conns = {}
    /\ served = 0
    /\ entered = FALSE
    /\ interrupts = 0
    /\ intrServe = 0
    /\ exc = None

----------------------------------------------------------------------------
(* Main thread *)

(* Variant: serve_forever() is called after the try block *)
TryPcsWithoutServe ==
    {"bind", "url", "print_running", "print_hint", "timer", "serve_call"}

TryPcs ==
    {"bind", "url", "print_running", "print_hint", "timer", "serve_call",
     "serve"}

CodePcs ==
    {"main", "bind", "url", "print_running", "print_hint", "timer",
     "serve_call", "serve", "except_os", "except_kbd"}

(* Variant: another default port *)
ParsePortOtherDefault(args) ==
    IF Len(args) > 1 THEN PyInt(args[2]) ELSE [ok |-> TRUE, val |-> 8080]

(* line 32: port = int(sys.argv[1]) if len(sys.argv) > 1 else 8000 *)
ParsePort(args) ==
    IF Len(args) > 1 THEN PyInt(args[2]) ELSE [ok |-> TRUE, val |-> DefaultPort]

(* lines 32-33 *)
Main ==
    /\ pc = "main"
    /\ LET r == ParsePort(argv)
       IN  IF r.ok
           THEN /\ port' = {r.val}
                /\ pc' = "bind"
                /\ exc' = exc
           ELSE /\ port' = port
                /\ pc' = "finalize"
                /\ exc' = "ValueError"
    /\ UNCHANGED <<argv, unavailable, url, server, binds, out, scheduled,
                   pending, opened, backlog, conns, served, entered,
                   interrupts, intrServe>>

(* socket.bind(('localhost', p)) *)
BindOutcome(p, refused) ==
    IF p < 0 \/ p > MaxPort THEN "OverflowError"
    ELSE IF p \in refused THEN "OSError"
    ELSE "ok"

(* line 17: server = HTTPServer(('localhost', port), JSHandler) *)
Bind ==
    /\ pc = "bind"
    /\ LET r == BindOutcome(Val(port), unavailable)
       IN  /\ binds' = Append(binds, [host |-> "localhost", port |-> Val(port),
                                      result |-> r])
           /\ CASE r = "ok" ->
                    /\ server' = {[host |-> "localhost", port |-> Val(port),
                                   bound |-> IF Val(port) = 0
                                             THEN EphemeralPort
                                             ELSE Val(port)]}
                    /\ pc' = "url"
                    /\ exc' = exc
                [] r = "OSError" ->
                    /\ server' = server
                    /\ pc' = "except_os"
                    /\ exc' = exc
                [] OTHER ->
                    /\ server' = server
                    /\ pc' = "finalize"
                    /\ exc' = r
    /\ UNCHANGED <<argv, unavailable, port, url, out, scheduled, pending,
                   opened, backlog, conns, served, entered, interrupts,
                   intrServe>>

(* line 18 *)
SetUrl ==
    /\ pc = "url"
    /\ url' = {Url(Val(port))}
    /\ pc' = "print_running"
    /\ UNCHANGED <<argv, unavailable, port, server, binds, out, scheduled,
                   pending, opened, backlog, conns, served, entered,
                   interrupts, intrServe, exc>>

(* line 20 *)
PrintRunning ==
    /\ pc = "print_running"
    /\ out' = Append(out, MsgRunning(Val(url)))
    /\ pc' = "print_hint"
    /\ UNCHANGED <<argv, unavailable, port, url, server, binds, scheduled,
                   pending, opened, backlog, conns, served, entered,
                   interrupts, intrServe, exc>>

(* line 21 *)
PrintHint ==
    /\ pc = "print_hint"
    /\ out' = Append(out, MsgHint)
    /\ pc' = "timer"
    /\ UNCHANGED <<argv, unavailable, port, url, server, binds, scheduled,
                   pending, opened, backlog, conns, served, entered,
                   interrupts, intrServe, exc>>

(* line 23: Timer(1.0, lambda: webbrowser.open(url)).start() *)
StartTimer ==
    /\ pc = "timer"
    /\ scheduled' = scheduled + 1
    /\ pending' = pending + 1
    /\ pc' = "serve_call"
    /\ UNCHANGED <<argv, unavailable, port, url, server, binds, out, opened,
                   backlog, conns, served, entered, interrupts, intrServe,
                   exc>>

(* line 24: server.serve_forever() is called *)
EnterServe ==
    /\ pc = "serve_call"
    /\ entered' = TRUE
    /\ pc' = "serve"
    /\ UNCHANGED <<argv, unavailable, port, url, server, binds, out,
                   scheduled, pending, opened, backlog, conns, served,
                   interrupts, intrServe, exc>>

(* Variant: a threading server, which accepts while a request is in        *)
(* progress                                                               *)
AcceptWhileBusy ==
    /\ pc = "serve"
    /\ backlog > 0
    /\ \E path \in Paths :
         conns' = conns \cup {[path |-> path, stage |-> "request", code |-> 0,
                               ctype |-> "", content |-> ""]}
    /\ backlog' = backlog - 1
    /\ UNCHANGED <<argv, unavailable, pc, port, url, server, binds, out,
                   scheduled, pending, opened, served, entered, interrupts,
                   intrServe, exc>>

(* serve_forever: get_request() accepts the next connection once the      *)
(* previous request has been finished and shut down; the handler then     *)
(* reads the request line.                                                *)
Accept ==
    /\ pc = "serve"
    /\ conns = {}
    /\ backlog > 0
    /\ \E path \in Paths :
         conns' = conns \cup {[path |-> path, stage |-> "request", code |-> 0,
                               ctype |-> "", content |-> ""]}
    /\ backlog' = backlog - 1
    /\ UNCHANGED <<argv, unavailable, pc, port, url, server, binds, out,
                   scheduled, pending, opened, served, entered, interrupts,
                   intrServe, exc>>

(* JSHandler.do_GET -> send_head: 404 for a missing file, otherwise 200    *)
(* with Content-type guess_type(path), path being the file the request    *)
(* path translates to.                                                    *)
SendHead(c, content) ==
    IF content = "missing"
    THEN [c EXCEPT !.stage = "response", !.code = 404,
                   !.ctype = "text/html;charset=utf-8", !.content = content]
    ELSE [c EXCEPT !.stage = "response", !.code = 200,
                   !.ctype = guess_type([path |-> c.path, content |-> content],
                                        c.path),
                   !.content = content]

Respond ==
    /\ pc = "serve"
    /\ \E c \in conns, content \in Contents :
         /\ c.stage = "request"
         /\ conns' = (conns \ {c}) \cup {SendHead(c, content)}
    /\ UNCHANGED <<argv, unavailable, pc, port, url, server, binds, out,
                   scheduled, pending, opened, backlog, served, entered,
                   interrupts, intrServe, exc>>

Min(a, b) == IF a < b THEN a ELSE b

(* shutdown_request: the connection is closed after the response *)
Close ==
    /\ pc = "serve"
    /\ \E c \in conns :
         /\ c.stage = "response"
         /\ conns' = conns \ {c}
    /\ served' = Min(served + 1, MaxServed)
    /\ UNCHANGED <<argv, unavailable, pc, port, url, server, binds, out,
                   scheduled, pending, opened, backlog, entered, interrupts,
                   intrServe, exc>>

(* Variant: the I/O error of a request escapes serve_forever() *)
RequestErrorEscapes ==
    /\ pc = "serve"
    /\ \E c \in conns : conns' = conns \ {c}
    /\ pc' = "except_os"
    /\ UNCHANGED <<argv, unavailable, port, url, server, binds, out,
                   scheduled, pending, opened, backlog, served, entered,
                   interrupts, intrServe, exc>>

(* A per-request I/O error (the client went away): socketserver's          *)
(* handle_error reports it on stderr, the connection is shut down and the *)
(* loop goes on.                                                          *)
RequestError ==
    /\ pc = "serve"
    /\ \E c \in conns : conns' = conns \ {c}
    /\ UNCHANGED <<argv, unavailable, pc, port, url, server, binds, out,
                   scheduled, pending, opened, backlog, served, entered,
                   interrupts, intrServe, exc>>

(* line 27, then start_server returns *)
ExceptOSError ==
    /\ pc = "except_os"
    /\ out' = Append(out, MsgPortInUse(Val(port)))
    /\ pc' = "finalize"
    /\ UNCHANGED <<argv, unavailable, port, url, server, binds, scheduled,
                   pending, opened, backlog, conns, served, entered,
                   interrupts, intrServe, exc>>

(* Variant: the handler prints and raises again *)
ExceptKeyboardInterruptReraise ==
    /\ pc = "except_kbd"
    /\ out' = Append(out, MsgStopped)
    /\ pc' = "finalize"
    /\ exc' = "KeyboardInterrupt"
    /\ UNCHANGED <<argv, unavailable, port, url, server, binds, scheduled,
                   pending, opened, backlog, conns, served, entered,
                   interrupts, intrServe>>

(* line 29, then start_server returns *)
ExceptKeyboardInterrupt ==
    /\ pc = "except_kbd"
    /\ out' = Append(out, MsgStopped)
    /\ pc' = "finalize"
    /\ UNCHANGED <<argv, unavailable, port, url, server, binds, scheduled,
                   pending, opened, backlog, conns, served, entered,
                   interrupts, intrServe, exc>>

(* Interpreter finalization: threading._shutdown joins the Timer thread,   *)
(* which is not a daemon, before the process exits.                       *)
Finalize ==
    /\ pc = "finalize"
    /\ pending = 0
    /\ pc' = "exited"
    /\ UNCHANGED <<argv, unavailable, port, url, server, binds, out,
                   scheduled, pending, opened, backlog, conns, served,
                   entered, interrupts, intrServe, exc>>

ExitCode ==
    CASE exc = None -> 0
      [] exc = "KeyboardInterrupt" -> 130
      [] OTHER -> 1

----------------------------------------------------------------------------
(* Timer thread *)

(* Variant: a periodic timer, armed again after its first expiry *)
TimerFireRepeating ==
    /\ pending > 0
    /\ pending' = IF opened = <<>> THEN pending ELSE pending - 1
    /\ \E result \in {"opened", "failed"} :
         opened' = Append(opened, [url |-> Val(url), result |-> result])
    /\ UNCHANGED <<argv, unavailable, pc, port, url, server, binds, out,
                   scheduled, backlog, conns, served, entered, interrupts,
                   intrServe, exc>>

(* Variant: the browser is opened from the main thread, where a failure    *)
(* to launch it is an OSError inside the try block                         *)
TimerFireInMainThread ==
    /\ pending > 0
    /\ pending' = pending - 1
    /\ \E result \in {"opened", "failed"} :
         /\ opened' = Append(opened, [url |-> Val(url), result |-> result])
         /\ pc' = IF result = "failed" /\ pc \in TryPcs THEN "except_os" ELSE pc
    /\ UNCHANGED <<argv, unavailable, port, url, server, binds, out,
                   scheduled, backlog, conns, served, entered, interrupts,
                   intrServe, exc>>

(* The timer expires and runs lambda: webbrowser.open(url).  A failure to  *)
(* launch a browser stays inside the timer thread.                        *)
TimerFire ==
    /\ pending > 0
    /\ pending' = pending - 1
    /\ \E result \in {"opened", "failed"} :
         opened' = Append(opened, [url |-> Val(url), result |-> result])
    /\ UNCHANGED <<argv, unavailable, pc, port, url, server, binds, out,
                   scheduled, backlog, conns, served, entered, interrupts,
                   intrServe, exc>>

----------------------------------------------------------------------------
(* Environment *)

(* SIGINT: KeyboardInterrupt is raised in the main thread at the statement *)
(* it is executing.  Inside the try block (lines 17-24) the handler of    *)
(* line 28 takes it; anywhere else in the module code it is unhandled.    *)
Interrupt ==
    /\ pc \in CodePcs
    /\ interrupts < MaxInterrupts
    /\ interrupts' = interrupts + 1
    /\ intrServe' = IF pc = "serve" THEN intrServe + 1 ELSE intrServe
    /\ IF pc \in TryPcs
       THEN /\ pc' = "except_kbd"
            /\ exc' = exc
       ELSE /\ pc' = "finalize"
            /\ exc' = "KeyboardInterrupt"
    /\ UNCHANGED <<argv, unavailable, port, url, server, binds, out,
                   scheduled, pending, opened, backlog, conns, served,
                   entered>>

(* A client connects to the listening socket *)
ClientConnect ==
    /\ server # {}
    /\ pc # "exited"
    /\ backlog < MaxBacklog
    /\ backlog' = backlog + 1
    /\ UNCHANGED <<argv, unavailable, pc, port, url, server, binds, out,
                   scheduled, pending, opened, conns, served, entered,
                   interrupts, intrServe, exc>>

----------------------------------------------------------------------------

MainThread ==
    \/ Main
    \/ Bind
    \/ SetUrl
    \/ PrintRunning
    \/ PrintHint
    \/ StartTimer
    \/ EnterServe
    \/ ExceptOSError
    \/ ExceptKeyboardInterrupt
    \/ Finalize

ServeLoop ==
    \/ Accept
    \/ Respond
    \/ Close
    \/ RequestError

Next ==
    \/ Main
    \/ Bind
    \/ SetUrl
    \/ PrintRunning
    \/ PrintHint
    \/ StartTimer
    \/ EnterServe
    \/ Accept
    \/ Respond
    \/ Close
    \/ RequestError
    \/ ExceptOSError
    \/ ExceptKeyboardInterrupt
    \/ Finalize
    \/ TimerFire
    \/ Interrupt
    \/ ClientConnect

Spec == Init /\ [][Next]_vars

(* The interpreter keeps running the main thread and the timer thread;     *)
(* the serve loop keeps handling what it has accepted.  Clients and        *)
(* signals are under no obligation.                                        *)
FairSpec ==
    /\ Spec
    /\ WF_vars(MainThread)
    /\ WF_vars(ServeLoop)
    /\ WF_vars(TimerFire)

----------------------------------------------------------------------------
(* Vocabulary of the properties *)

Printed(kind) == {i \in 1..Len(out) : out[i].kind = kind}

Count(kind) == Cardinality(Printed(kind))

Terminated == pc = "exited"

Returned == pc \in {"finalize", "exited"} /\ exc = None

BindFailed == binds # <<>> /\ binds[1].result # "ok"

BindRefused == binds # <<>> /\ binds[1].result = "OSError"

RECURSIVE StripZeros(_)
StripZeros(d) ==
    IF Len(d) > 1 /\ d[1] = "0" THEN StripZeros(Tail(d)) ELSE d

Unsigned(tok) == IF tok # <<>> /\ tok[1] \in {"-", "+"} THEN Tail(tok) ELSE tok

IsNumeral(tok) ==
    /\ Unsigned(tok) # <<>>
    /\ \A i \in 1..Len(Unsigned(tok)) : Unsigned(tok)[i] \in DigitSet

(* The numeral tok, read as decimal notation, writes the integer n *)
Denotes(tok, n) ==
    /\ IsNumeral(tok)
    /\ StripZeros(Unsigned(tok)) = StrNat(IF n < 0 THEN 0 - n ELSE n)
    /\ (n < 0 => tok[1] = "-")
    /\ (tok[1] = "-" => n <= 0)

IndexUrl(digits) == [host |-> "localhost", port |-> digits, path |-> "/index.html"]

----------------------------------------------------------------------------
(* The value of port and every place it has been used so far *)
C1_PortUsed ==
    port # Unset =>
        LET p == Val(port)
        IN  /\ Len(argv) = 1 => p = 8000
            /\ Len(argv) > 1 => Denotes(argv[2], p)
            /\ Len(binds) <= 1
            /\ pc \in {"url", "print_running", "print_hint", "timer",
                       "serve_call", "serve", "except_os"} => Len(binds) = 1
            /\ \A i \in 1..Len(binds) :
                 binds[i].host = "localhost" /\ binds[i].port = p
            /\ url # Unset => Val(url) = IndexUrl(Str(p))
            /\ \A i \in Printed("Server running at") : out[i].args = <<Str(p)>>
            /\ \A i \in Printed("Port in use") :
                 out[i].args = <<Str(p), Str(p + 1)>>
            /\ \A i \in 1..Len(opened) : opened[i].url = IndexUrl(Str(p))

(* C1: port selection.  With no argument the port is 8000; with a numeric  *)
(* argument P it is P; the bind, the printed URL, the browser URL and the  *)
(* port-in-use message all use that value, and once assigned the port      *)
(* never changes.                                                          *)
C1_PortSelection ==
    /\ []C1_PortUsed
    /\ [][port # Unset => port' = port]_vars

C1_Witness ==
    /\ Len(argv) > 1
    /\ argv[2] = <<"8", "0", "0", "1">>
    /\ port = {8001}
    /\ Len(binds) = 1
    /\ Count("Server running at") = 1
    /\ Len(opened) = 1

----------------------------------------------------------------------------
PathEndsInDotJs(path) ==
    /\ Len(path) >= 3
    /\ path[Len(path) - 2] = "."
    /\ path[Len(path) - 1] = "j"
    /\ path[Len(path)] = "s"

(* C2: content type.  Every 200 response carries application/javascript    *)
(* when the path ends in ".js" and the default resolution's type for the   *)
(* path otherwise, whatever the file holds.                                *)
C2_ContentType ==
    \A c \in conns :
        (c.stage = "response" /\ c.code = 200) =>
            /\ PathEndsInDotJs(c.path) => c.ctype = "application/javascript"
            /\ ~PathEndsInDotJs(c.path) =>
                 c.ctype = DefaultGuessType([path |-> c.path,
                                             content |-> c.content], c.path)
            /\ \A other \in Contents \ {"missing"} :
                 SendHead([c EXCEPT !.stage = "request"], other).ctype = c.ctype

C2_Witness ==
    \E c \in conns :
        /\ c.stage = "response"
        /\ c.code = 200
        /\ c.path = <<"/", "a", "p", "p", ".", "j", "s">>
        /\ c.content = "markup"
        /\ c.ctype = "application/javascript"

----------------------------------------------------------------------------
(* C3 as stated: whenever the bind fails, the process ends having printed  *)
(* the port-in-use message and nothing else, without scheduling the        *)
(* browser or entering the serve loop.                                     *)
C3_AnyBindFailurePrints ==
    BindFailed =>
        /\ Count("Server running at") = 0
        /\ scheduled = 0
        /\ ~entered
        /\ served = 0
        /\ pc \in {"finalize", "exited"} =>
             out = <<MsgPortInUse(binds[1].port)>>

(* After a failed bind nothing of the success path has happened *)
C3_Silent ==
    BindFailed =>
        /\ Count("Server running at") = 0
        /\ Count("Press Ctrl+C to stop") = 0
        /\ scheduled = 0
        /\ opened = <<>>
        /\ ~entered
        /\ served = 0
        /\ conns = {}
        /\ server = {}

(* A refused bind leads to the handler of line 26 and its message *)
C3_Message ==
    /\ (BindRefused /\ Returned) =>
         out = <<[kind |-> "Port in use",
                  args |-> <<Str(binds[1].port), Str(binds[1].port + 1)>>]>>
    /\ (BindRefused /\ interrupts = 0) =>
         pc \in {"except_os", "finalize", "exited"} /\ exc = None

(* C3, amended: after any failed bind the startup message is never         *)
(* printed, the browser is never scheduled, the serve loop is never        *)
(* entered and the process terminates; when the failure is an OSError and  *)
(* start_server returns, exactly the port-in-use message for port and      *)
(* port + 1 has been printed.                                              *)
C3_BindFailure ==
    /\ [](C3_Silent /\ C3_Message)
    /\ (BindFailed ~> Terminated)

C3_Witness ==
    /\ BindRefused
    /\ Terminated
    /\ exc = None
    /\ out = <<[kind |-> "Port in use",
                args |-> <<<<"8", "0", "0", "0">>, <<"8", "0", "0", "1">>>>]>>

----------------------------------------------------------------------------
(* The interrupt takes the main thread out of the loop, to line 28 *)
C4_LoopStops ==
    [][(pc = "serve" /\ interrupts' > interrupts) =>
         (pc' = "except_kbd" /\ intrServe' = 1 /\ exc' = None)]_vars

(* No connection is accepted, answered or closed afterwards *)
C4_NoServingAfter ==
    [][intrServe >= 1 => (conns' = conns /\ served' = served /\ pc' # "serve")]_vars

(* With that interrupt the only one, start_server returns normally after   *)
(* printing the stop message once                                          *)
C4_StoppedOnce ==
    /\ Count("Server stopped") <= 1
    /\ (intrServe = 1 /\ interrupts = 1 /\ pc \in {"finalize", "exited"}) =>
         /\ Count("Server stopped") = 1
         /\ out[Len(out)] = MsgStopped
         /\ exc = None
         /\ ExitCode = 0

----------------------------------------------------------------------------
(* C5 as stated: in every run whose bind succeeds the browser-open action  *)
(* is scheduled exactly once, after the bind and the startup message; it   *)
(* fires at most once and targets /index.html on the port that was bound.  *)
C5_EveryBoundRunSchedulesBoundPort ==
    /\ (server # {} /\ (entered \/ Terminated)) => scheduled = 1
    /\ scheduled <= 1
    /\ scheduled >= 1 => (server # {} /\ Count("Server running at") = 1)
    /\ Len(opened) <= 1
    /\ \A i \in 1..Len(opened) :
         \A srv \in server : opened[i].url = IndexUrl(Str(srv.bound))

(* Counts, order and target of the browser-open action *)
C5_Safety ==
    /\ scheduled <= 1
    /\ entered => scheduled = 1
    /\ scheduled >= 1 =>
         /\ server # {}
         /\ Len(out) >= 2
         /\ out[1].kind = "Server running at"
         /\ out[2].kind = "Press Ctrl+C to stop"
    /\ Len(opened) <= scheduled
    /\ Len(opened) <= 1
    /\ \A i \in 1..Len(opened) :
         /\ opened[i].url = IndexUrl(Str(binds[1].port))
         /\ \A srv \in server :
              /\ srv.port = binds[1].port
              /\ srv.port # 0 => srv.bound = srv.port

(* Timer.start() happens with the socket bound and the startup line out *)
C5_ScheduledAfterStartup ==
    [][scheduled' > scheduled =>
         (server # {} /\ Count("Server running at") = 1 /\ opened = <<>>)]_vars

(* C5, amended: the action is scheduled at most once, only after the bind  *)
(* and the startup message, and exactly once in every run that reaches the *)
(* serve loop; it fires at most once, and exactly once if the process is   *)
(* not interrupted first; it targets /index.html on the port given to the  *)
(* bind, which is the bound port unless that port is 0.                    *)
C5_OneShot ==
    /\ []C5_Safety
    /\ C5_ScheduledAfterStartup
    /\ ((scheduled = 1 /\ interrupts = 0) ~> (Len(opened) = 1 \/ interrupts > 0))

C5_Witness ==
    /\ scheduled = 1
    /\ Len(opened) = 1
    /\ opened[1].result = "opened"
    /\ pc = "serve"
    /\ interrupts = 0
    /\ port = {8000}

----------------------------------------------------------------------------
(* C6: whenever the port-in-use message has been printed, the bind failed  *)
(* with an OSError, the serve loop was never entered and no request was    *)
(* accepted or served.                                                     *)
C6_PortInUseOnlyAtStartup ==
    Count("Port in use") >= 1 =>
        /\ BindRefused
        /\ ~entered
        /\ served = 0
        /\ conns = {}
        /\ pc \in {"finalize", "exited"}

C6_Witness ==
    /\ Count("Port in use") = 1
    /\ port = {80}
    /\ Terminated

----------------------------------------------------------------------------
(* C7 as stated: every terminated run has printed exactly one of the two   *)
(* messages and exits with code 0.                                         *)
C7_EveryRunPrintsOne ==
    Terminated =>
        /\ Count("Port in use") + Count("Server stopped") = 1
        /\ ExitCode = 0

(* C7, amended: no run prints more than one of the two messages; a run     *)
(* in which start_server returns has printed exactly one of them and       *)
(* exits with code 0, which is what happens after a refused bind and       *)
(* after a caught interrupt when no further interrupt arrives; a run that  *)
(* ends with an uncaught exception exits non-zero.                         *)
C7_ExitStatus ==
    /\ Count("Port in use") + Count("Server stopped") <= 1
    /\ Returned => Count("Port in use") + Count("Server stopped") = 1
    /\ (Terminated /\ Count("Port in use") + Count("Server stopped") = 1
          /\ interrupts <= Count("Server stopped")) => ExitCode = 0
    /\ (Terminated /\ BindRefused /\ interrupts = 0) =>
         (Count("Port in use") = 1 /\ ExitCode = 0)
    /\ (Terminated /\ interrupts = 1 /\ Count("Server stopped") = 1) =>
         ExitCode = 0
    /\ (Terminated /\ Count("Port in use") + Count("Server stopped") = 0) =>
         ExitCode # 0

C7_Witness ==
    /\ Terminated
    /\ Count("Server stopped") = 1
    /\ Count("Port in use") = 0
    /\ interrupts = 1
    /\ entered
    /\ ExitCode = 0

----------------------------------------------------------------------------
(* C8: once an interrupt has stopped the serve loop and the stop message   *)
(* has been printed nothing further happens: a browser-open action still   *)
(* pending at that point never fires.                                      *)
C8_NothingAfterStop ==
    [][(intrServe >= 1 /\ Count("Server stopped") >= 1) =>
         (opened' = opened /\ pending' = pending)]_vars

----------------------------------------------------------------------------
(* C9: the timer thread's step, whether the browser opens or not, changes  *)
(* nothing of the main thread or the serve loop: same statement, same      *)
(* socket, same connections, same output, no exception.                    *)
C9_TimerIndependent ==
    [][Len(opened') > Len(opened) =>
         /\ pc' = pc
         /\ server' = server
         /\ conns' = conns
         /\ backlog' = backlog
         /\ served' = served
         /\ out' = out
         /\ exc' = exc
         /\ port' = port
         /\ url' = url]_vars

C9_Witness ==
    /\ pc = "serve"
    /\ Len(opened) = 1
    /\ opened[1].result = "failed"
    /\ \E c \in conns : c.stage = "response"
    /\ Count("Port in use") + Count("Server stopped") = 0

----------------------------------------------------------------------------
C10_OneInProgress == Cardinality(conns) <= 1

C10_AcceptWhenIdle ==
    [][\A c \in conns' \ conns :
         \/ c.stage = "request" /\ conns = {}
         \/ /\ c.stage = "response"
            /\ \E d \in conns \ conns' : d.stage = "request" /\ d.path = c.path]_vars

C10_OnlyInterruptEnds ==
    [][(pc = "serve" /\ pc' # "serve") =>
         (interrupts' = interrupts + 1 /\ pc' = "except_kbd")]_vars

(* C10: the serve loop handles one connection at a time, each through      *)
(* request, response, close; a connection is accepted only when none is    *)
(* in progress; the loop is left only by a keyboard interrupt.             *)
C10_ServeLoop ==
    /\ []C10_OneInProgress
    /\ C10_AcceptWhenIdle
    /\ C10_OnlyInterruptEnds

C10_Witness ==
    /\ pc = "serve"
    /\ Cardinality(conns) = 1
    /\ backlog >= 1
    /\ served >= 1
    /\ interrupts = 0

====
